---- MODULE Spec2Model ----
(***************************************************************************)
(* Installer-package metadata extraction of JSSPatchGenerator.py:          *)
(* extracted_package_info, parse_pkginfo_refs, parse_distribution_refs,    *)
(* get_flat_pkg_info and get_pkg_receiptinfo; the run of the JSSPackage    *)
(* processor (JSSPackage.py) and the icon handling of the JSSPolicy        *)
(* processor (JSSPolicy.py).                                               *)
(*                                                                         *)
(* Python values are modelled as follows.  A str is a TLA+ string.  A dict *)
(* is a function whose DOMAIN is the set of keys present.  A list is a     *)
(* sequence.  What a call hands back is a record: [kind |-> "None"],       *)
(* [kind |-> "list", items |-> <<...>>] or [kind |-> "raise", exc |-> e].  *)
(* The code has no try/except, so a raised exception unwinds every frame.  *)
(***************************************************************************)
EXTENDS Integers, Sequences, FiniteSets, TLC

VARIABLES
    files,          \* the filesystem: path of every regular file |-> its content
    dirs,           \* the filesystem: paths of the directories
    stack,          \* call stack, innermost frame last
    ret,            \* value handed back by the call that returned last
    call,           \* the call made by the caller of this module
    result,         \* what that call handed back to the caller
    descended,      \* filenames get_pkg_receiptinfo was called with, in order
    tmpdirs,        \* directories tempfile.mkdtemp() made, in order
    produced,       \* dicts the two parsers built during the call, in order
    xarlog,         \* every `xar -xf` run: entry, exit status, file written
    yielded,        \* pairs extracted_package_info yielded, in order
    pkginfo_doc,    \* parse_pkginfo_refs called on its own: the parsed DOM
    pkginfo_ret,    \* ... and what the call handed back
    dist_refs,      \* the pkg-ref loop called on its own: the parsed DOM
    dist_ret,       \* ... and the pkgref_dict it built
    env,            \* self.env of the processor that runs: key |-> value
    self,           \* the attributes of the processor, and where its run is
    jss,            \* the JAMF Pro server: categories, packages, policy icon
    dp,             \* names of the files on the distribution points
    copies,         \* every distribution_points.copy call, in order
    uploads         \* every FileUpload saved, in order

vars == <<files, dirs, stack, ret, call, result, descended, tmpdirs, produced,
          xarlog, yielded, pkginfo_doc, pkginfo_ret, dist_refs, dist_ret,
          env, self, jss, dp, copies, uploads>>

fsVars == <<files, dirs>>
runVars == <<stack, ret, call, result>>
histVars == <<descended, tmpdirs, produced, xarlog, yielded>>
procVars == <<env, self, jss, dp, copies, uploads>>
analysisVars == <<runVars, histVars, pkginfo_doc, pkginfo_ret, dist_refs, dist_ret>>
pureVars == <<pkginfo_doc, pkginfo_ret, dist_refs, dist_ret, procVars>>

----------------------------------------------------------------------------
(* Bounds of the model. *)

\* longest list of pkg-info elements in a PackageInfo document
MaxNodes == 2
\* longest list of pkg-ref elements in a Distribution document
MaxRefs == 2
\* longest table of contents handed to extracted_package_info on its own
MaxToc == 3
\* most directories tempfile.mkdtemp() makes in one run
MaxTmpDirs == 3
\* most runs of the JSSPolicy processor against one server
MaxRuns == 2

----------------------------------------------------------------------------
(* Python values. *)

Idle == [kind |-> "idle"]
None == [kind |-> "None"]
List(items) == [kind |-> "list", items |-> items]
Raise(exc) == [kind |-> "raise", exc |-> exc]

\* `x in info` for a list
InList(x, info) == \E i \in 1..Len(info) : info[i] = x

\* str.startswith / str.endswith
StartsWith(s, p) == Len(s) >= Len(p) /\ SubSeq(s, 1, Len(p)) = p
EndsWith(s, p) == Len(s) >= Len(p) /\ SubSeq(s, Len(s) - Len(p) + 1, Len(s)) = p

Digits == "0123456789"
IsDigit(c) == \E i \in 1..Len(Digits) : SubSeq(Digits, i, i) = c
DigitVal(c) == (CHOOSE i \in 1..Len(Digits) : SubSeq(Digits, i, i) = c) - 1

\* int(s) accepts a decimal literal (the inputs here carry no sign, no
\* surrounding blanks); anything else is a ValueError
IsIntLiteral(s) == Len(s) > 0 /\ \A i \in 1..Len(s) : IsDigit(SubSeq(s, i, i))

RECURSIVE IntOf(_)
IntOf(s) ==
    IF Len(s) = 0 THEN 0
    ELSE IntOf(SubSeq(s, 1, Len(s) - 1)) * 10 + DigitVal(SubSeq(s, Len(s), Len(s)))

\* an attribute-less element, and an element with one attribute
NoAttrs == [k \in {} |-> ""]
Attr(k, v) == [x \in {k} |-> v]

----------------------------------------------------------------------------
(* str methods, os.path and urllib2.unquote, character by character. *)

CharAt(s, i) == SubSeq(s, i, i)
From(s, i) == SubSeq(s, i, Len(s))

\* s.find(c) and s.rfind(c), 1-based, 0 when c does not occur
Find(s, c) ==
    LET at == {i \in 1..Len(s) : CharAt(s, i) = c}
    IN IF at = {} THEN 0 ELSE CHOOSE i \in at : \A j \in at : i <= j
RFind(s, c) ==
    LET at == {i \in 1..Len(s) : CharAt(s, i) = c}
    IN IF at = {} THEN 0 ELSE CHOOSE i \in at : \A j \in at : i >= j

IsSpace(c) == c \in {" ", "\n", "\t", "\r"}

\* s.strip()
RECURSIVE LStrip(_)
LStrip(s) == IF Len(s) > 0 /\ IsSpace(CharAt(s, 1)) THEN LStrip(From(s, 2)) ELSE s
RECURSIVE RStrip(_)
RStrip(s) ==
    IF Len(s) > 0 /\ IsSpace(CharAt(s, Len(s)))
    THEN RStrip(SubSeq(s, 1, Len(s) - 1)) ELSE s
Strip(s) == RStrip(LStrip(s))

\* s.split('\n'): never empty, ''.split('\n') is ['']
RECURSIVE SplitLines(_)
SplitLines(s) ==
    LET i == Find(s, "\n")
    IN IF i = 0 THEN <<s>>
       ELSE <<SubSeq(s, 1, i - 1)>> \o SplitLines(From(s, i + 1))

\* s.rstrip('/')
RECURSIVE RStripSlash(_)
RStripSlash(s) ==
    IF Len(s) > 0 /\ CharAt(s, Len(s)) = "/"
    THEN RStripSlash(SubSeq(s, 1, Len(s) - 1)) ELSE s

\* posixpath.dirname
Dirname(p) ==
    LET head == SubSeq(p, 1, RFind(p, "/"))
    IN IF head # "" /\ RStripSlash(head) # "" THEN RStripSlash(head) ELSE head

\* posixpath.join of two components
Join(a, b) ==
    IF StartsWith(b, "/") THEN b
    ELSE IF a = "" \/ EndsWith(a, "/") THEN a \o b
    ELSE a \o "/" \o b

\* the escapes that occur in the inputs, out of urllib's _hextochr
HexToChr == ("20" :> " ") @@ ("2F" :> "/") @@ ("2f" :> "/") @@ ("25" :> "%")

\* urllib2.unquote: every '%' followed by two hex digits becomes the
\* character, any other '%' stays
RECURSIVE Unquote(_)
Unquote(s) ==
    LET i == Find(s, "%")
    IN IF i = 0 THEN s
       ELSE LET item == From(s, i + 1)
                hex == SubSeq(item, 1, 2)
            IN IF Len(item) >= 2 /\ hex \in DOMAIN HexToChr
               THEN SubSeq(s, 1, i - 1) \o HexToChr[hex] \o Unquote(From(item, 3))
               ELSE SubSeq(s, 1, i) \o Unquote(item)

----------------------------------------------------------------------------
(* parse_pkginfo_refs.  A pkg-info element is [attrs, payloads]: its       *)
(* attributes and the attributes of its payload elements in document order.*)

\* 'identifier' in keys and 'version' in keys
HasIdentifierAndVersion(ref) ==
    "identifier" \in DOMAIN ref.attrs /\ "version" \in DOMAIN ref.attrs

\* payloads is non-empty and 'installKBytes' is an attribute of payloads[0]
HasInstallKBytes(ref) ==
    ref.payloads # <<>> /\ "installKBytes" \in DOMAIN ref.payloads[1]

\* the text int() is applied to
InstallKBytesText(ref) == ref.payloads[1]["installKBytes"]

\* the dict built for one pkg-info element
PkginfoDict(ref) ==
    [packageid |-> ref.attrs["identifier"],
     version |-> ref.attrs["version"],
     installed_size |-> IntOf(InstallKBytesText(ref))]

\* as AppendIfNew, without the membership test
AppendAlways(info, pkginfo) == Append(info, pkginfo)

\* if pkginfo not in info: info.append(pkginfo)
AppendIfNew(info, pkginfo) ==
    IF InList(pkginfo, info) THEN info ELSE Append(info, pkginfo)

\* int() raises on the installKBytes of this element
PkginfoRaises(ref) ==
    /\ HasIdentifierAndVersion(ref)
    /\ HasInstallKBytes(ref)
    /\ ~IsIntLiteral(InstallKBytesText(ref))

\* as PkginfoStep, with info.append run for every element that has an
\* identifier and a version
PkginfoStepAppendsAll(info, ref) ==
    IF HasIdentifierAndVersion(ref)
    THEN IF HasInstallKBytes(ref) THEN AppendIfNew(info, PkginfoDict(ref))
         ELSE Append(info, [packageid |-> ref.attrs["identifier"],
                            version |-> ref.attrs["version"]])
    ELSE info

\* one pass of `for ref in refs`: info after it
PkginfoStep(info, ref) ==
    IF HasIdentifierAndVersion(ref) /\ HasInstallKBytes(ref)
    THEN AppendIfNew(info, PkginfoDict(ref))
    ELSE info

\* `for ref in refs`: the list returned, or the exception raised
RECURSIVE PkginfoLoop(_, _)
PkginfoLoop(refs, info) ==
    IF refs = <<>> THEN List(info)
    ELSE IF PkginfoRaises(Head(refs)) THEN Raise("ValueError")
    ELSE PkginfoLoop(Tail(refs), PkginfoStep(info, Head(refs)))

\* parse_pkginfo_refs on a parsed document (the list of its pkg-info elements)
ParsePkginfoRefs(refs) == PkginfoLoop(refs, <<>>)

----------------------------------------------------------------------------
(* parse_distribution_refs, the loop over the pkg-ref elements.  A pkg-ref *)
(* element is [attrs, text]: its attributes and the text of its first      *)
(* child, "" when it has no child.  path_to_pkg = "" stands for None.      *)

\* d[k] = v on a dict
SetKey(d, k, v) == [x \in DOMAIN d \cup {k} |-> IF x = k THEN v ELSE d[x]]

\* del d[k] on a dict
DelKey(d, k) == [x \in DOMAIN d \ {k} |-> d[x]]

\* as MergeVersion, keeping the version already stored
MergeVersionKeepsFirst(pkgref, attrs) ==
    IF "version" \in DOMAIN attrs /\ "version" \notin DOMAIN pkgref
    THEN SetKey(pkgref, "version", attrs["version"]) ELSE pkgref

\* if 'version' in keys: pkgref_dict[pkgid]['version'] = ...
MergeVersion(pkgref, attrs) ==
    IF "version" \in DOMAIN attrs
    THEN SetKey(pkgref, "version", attrs["version"]) ELSE pkgref

\* if 'installKBytes' in keys: pkgref_dict[pkgid]['installed_size'] = int(...)
MergeInstalledSize(pkgref, attrs) ==
    IF "installKBytes" \in DOMAIN attrs
    THEN SetKey(pkgref, "installed_size", IntOf(attrs["installKBytes"]))
    ELSE pkgref

\* ref.firstChild and text.endswith('.pkg')
NamesFile(text) == text # "" /\ EndsWith(text, ".pkg")

\* the directory a 'file:' body is resolved against
FileRefDir(distribution_path, path_to_pkg) ==
    Dirname(IF path_to_pkg # "" THEN path_to_pkg ELSE distribution_path)

\* the value stored under 'file' for a body that names a file
RefFile(text, distribution_path, path_to_pkg) ==
    IF StartsWith(text, "file:")
    THEN Join(FileRefDir(distribution_path, path_to_pkg), Unquote(From(text, 6)))
    ELSE Join(Dirname(distribution_path),
              Unquote(IF StartsWith(text, "#") THEN From(text, 2) ELSE text))

\* if ref.firstChild: ... pkgref_dict[pkgid]['file'] = ...
MergeFile(pkgref, text, distribution_path, path_to_pkg) ==
    IF NamesFile(text)
    THEN SetKey(pkgref, "file", RefFile(text, distribution_path, path_to_pkg))
    ELSE pkgref

\* one pass of `for ref in refs` over an element that carries an id
MergeRef(pkgref_dict, ref, distribution_path, path_to_pkg) ==
    LET pkgid == ref.attrs["id"]
        old == IF pkgid \in DOMAIN pkgref_dict THEN pkgref_dict[pkgid]
               ELSE Attr("packageid", pkgid)
    IN SetKey(pkgref_dict, pkgid,
              MergeFile(MergeInstalledSize(MergeVersion(old, ref.attrs), ref.attrs),
                        ref.text, distribution_path, path_to_pkg))

\* int() raises on the installKBytes of this element
RefRaises(ref) ==
    /\ "id" \in DOMAIN ref.attrs
    /\ "installKBytes" \in DOMAIN ref.attrs
    /\ ~IsIntLiteral(ref.attrs["installKBytes"])

NoDict == [k \in {} |-> NoAttrs]
Dict(d) == [kind |-> "dict", value |-> d]

\* `for ref in refs`: the pkgref_dict built, or the exception raised
RECURSIVE MergeLoop(_, _, _, _)
MergeLoop(refs, pkgref_dict, distribution_path, path_to_pkg) ==
    IF refs = <<>> THEN Dict(pkgref_dict)
    ELSE LET ref == Head(refs) IN
         IF RefRaises(ref) THEN Raise("ValueError")
         ELSE MergeLoop(Tail(refs),
                        IF "id" \in DOMAIN ref.attrs
                        THEN MergeRef(pkgref_dict, ref, distribution_path, path_to_pkg)
                        ELSE pkgref_dict,
                        distribution_path, path_to_pkg)

MergeRefs(refs, distribution_path, path_to_pkg) ==
    MergeLoop(refs, NoDict, distribution_path, path_to_pkg)

----------------------------------------------------------------------------
(* Inputs of parse_pkginfo_refs. *)

IdentifierAttrs == {NoAttrs, Attr("identifier", "a"), Attr("identifier", "b")}
VersionAttrs == {NoAttrs, Attr("version", "1")}
PayloadLists ==
    { <<>>,
      <<NoAttrs>>,
      <<Attr("installKBytes", "4")>>,
      <<Attr("installKBytes", "04")>>,
      <<Attr("installKBytes", "x")>>,
      <<NoAttrs, Attr("installKBytes", "4")>>,
      <<Attr("installKBytes", "4"), Attr("installKBytes", "7")>> }

PkgInfoNodes ==
    { [attrs |-> i @@ v, payloads |-> p] :
        i \in IdentifierAttrs, v \in VersionAttrs, p \in PayloadLists }

SeqsUpTo(S, n) == UNION { [1..k -> S] : k \in 0..n }

PkgInfoDocs == SeqsUpTo(PkgInfoNodes, MaxNodes)

----------------------------------------------------------------------------
(* Inputs of the pkg-ref loop of parse_distribution_refs. *)

IdAttrs == {NoAttrs, Attr("id", "a"), Attr("id", "b")}
RefVersionAttrs == {NoAttrs, Attr("version", "1"), Attr("version", "2")}
RefSizeAttrs == {NoAttrs, Attr("installKBytes", "4"), Attr("installKBytes", "07"),
                 Attr("installKBytes", "x")}
RefTexts == {"", "file:A%20B.pkg"}

PkgRefNodes ==
    { [attrs |-> i @@ v @@ z, text |-> t] :
        i \in IdAttrs, v \in RefVersionAttrs, z \in RefSizeAttrs, t \in RefTexts }

PkgRefDocs == SeqsUpTo(PkgRefNodes, MaxRefs)

----------------------------------------------------------------------------
(* The filesystem and the xar tool.  A regular file holds                  *)
(*   [type |-> "xml", pkginfo |-> <<..>>, pkgref |-> <<..>>]  a descriptor *)
(*   [type |-> "garbage"]              bytes that are neither XML nor xar  *)
(*   [type |-> "xar", listable, toc, dist]                    an installer *)
(* A xar archive holds one member per entry of its toc; `dist` is what its *)
(* Distribution members hold.                                              *)

Xml(pkginfo, pkgref) == [type |-> "xml", pkginfo |-> pkginfo, pkgref |-> pkgref]
Garbage == [type |-> "garbage"]
Xar(listable, toc, dist) ==
    [type |-> "xar", listable |-> listable, toc |-> toc, dist |-> dist]

\* os.path.isfile, os.path.isdir, os.path.exists
IsFile(p) == p \in DOMAIN files
IsDir(p) == p \in dirs
Exists(p) == IsFile(p) \/ IsDir(p)

\* the working directory of the process, which every xar child inherits
Cwd == "/work"

\* the n-th name tempfile.mkdtemp() returns: a directory that did not exist
MkdtempName(n) == "/scratch/tmp" \o CharAt(Digits, n + 1)

\* every directory above p, up to the root
Ancestors(p) ==
    {Dirname(SubSeq(p, 1, i)) : i \in 1..Len(p)} \ {"", p}

\* the PackageInfo descriptor of the component com.example.sub
SubPkginfo ==
    <<[attrs |-> [identifier |-> "com.example.sub", version |-> "1.2.3"],
       payloads |-> <<Attr("installKBytes", "4096")>>]>>

\* what the member `entry` of an archive holds
MemberContent(archive, entry) ==
    IF StartsWith(entry, "Distribution") THEN archive.dist
    ELSE Xml(SubPkginfo, <<>>)

\* stdout of `xar -tf filename`: one entry per line; nothing when xar cannot
\* list the file (it then exits non-zero, which the code does not look at)
RECURSIVE TocText(_)
TocText(toc) == IF toc = <<>> THEN "" ELSE Head(toc) \o "\n" \o TocText(Tail(toc))
XarList(filename) ==
    IF IsFile(filename) /\ files[filename].type = "xar" /\ files[filename].listable
    THEN TocText(files[filename].toc) ELSE ""

\* toc = toc.strip().split('\n')
ReadToc(filename) == SplitLines(Strip(XarList(filename)))

\* as ExtractDest, had the member been written under tmpdir
ExtractDestUnderTmpdir(tmpdir, entry) == Join(tmpdir, entry)

\* where `xar -xf pkg_path entry` writes the member: xar extracts into the
\* working directory, the command names no other and the code never chdirs
ExtractDest(tmpdir, entry) == Join(Cwd, entry)

\* os.path.join(tmpdir, entry), the path the generator yields
YieldedPath(tmpdir, entry) == Join(tmpdir, entry)

\* minidom.parse(path): the DOM, or the exception raised
ReadXml(path) ==
    IF ~IsFile(path) THEN Raise("IOError")
    ELSE IF files[path].type # "xml" THEN Raise("ExpatError")
    ELSE [kind |-> "dom", pkginfo |-> files[path].pkginfo,
          pkgref |-> files[path].pkgref]

----------------------------------------------------------------------------
(* Call frames. *)

NoPair == [path |-> "", type |-> ""]

ReceiptFrame(filename) ==
    [fn |-> "get_pkg_receiptinfo", pc |-> "start", filename |-> filename]

\* get_flat_pkg_info, with the state of the generator it iterates:
\* toc[i] is the entry in hand, rule the `if` of the loop body reached
FlatFrame(filename) ==
    [fn |-> "get_flat_pkg_info", pc |-> "toc", filename |-> filename,
     toc |-> <<>>, tmpdir |-> "", i |-> 1, rule |-> 1, pending |-> NoPair]

\* list(extracted_package_info(pkg_path, toc)) with the default tmpdir
ExtractFrame(pkg_path, toc) ==
    [fn |-> "extracted_package_info", pc |-> "gen", filename |-> pkg_path,
     toc |-> toc, tmpdir |-> "/tmp", i |-> 1, rule |-> 1, pending |-> NoPair]

DistFrame(distribution_path, path_to_pkg) ==
    [fn |-> "parse_distribution_refs", pc |-> "parse",
     distribution_path |-> distribution_path, path_to_pkg |-> path_to_pkg,
     pkgref_dict |-> NoDict, todo |-> {}, info |-> <<>>]

Top == stack[Len(stack)]
Running(fn, pc) == stack # <<>> /\ Top.fn = fn /\ Top.pc = pc

\* the stack with its innermost frame replaced, and then with a callee on top
Replaced(frame) == [stack EXCEPT ![Len(stack)] = frame]
Calling(frame, callee) == Append(Replaced(frame), callee)

\* the innermost call returns v to its caller
Return(v) ==
    /\ stack' = SubSeq(stack, 1, Len(stack) - 1)
    /\ ret' = v
    /\ result' = IF Len(stack) = 1 THEN v ELSE result

\* as Throw, had the frame that raised caught the exception and returned None
ThrowSwallowed(exc) == Return(None)

\* the innermost call raises: nothing catches, the exception reaches the caller
\* of the module
Throw(exc) ==
    /\ stack' = <<>>
    /\ ret' = ret
    /\ result' = Raise(exc)

----------------------------------------------------------------------------
(* extracted_package_info: the generator. *)

\* the three `if` conditions of the loop body, in order
RuleMatches(rule, entry) ==
    CASE rule = 1 -> StartsWith(entry, "PackageInfo")
      [] rule = 2 -> EndsWith(entry, ".pkg/PackageInfo")
      [] rule = 3 -> StartsWith(entry, "Distribution")

\* as RuleType, with the second `if` yielding what the third yields
RuleTypeOfThird(rule) == IF rule = 1 THEN "pkginfo" ELSE "distribution"

\* the second item of the pair each `if` yields
RuleType(rule) == IF rule = 3 THEN "distribution" ELSE "pkginfo"

InGenerator ==
    /\ stack # <<>>
    /\ Top.fn \in {"get_flat_pkg_info", "extracted_package_info"}
    /\ Top.pc = "gen"
    /\ Top.i <= Len(Top.toc)

\* the frame with the generator moved past the `if` in hand
Advanced(frame) ==
    IF frame.rule < 3 THEN [frame EXCEPT !.rule = frame.rule + 1]
    ELSE [frame EXCEPT !.i = frame.i + 1, !.rule = 1]

\* `xar -xf pkg_path entry` can succeed: the archive holds the entry
CanExtract(pkg_path, entry) ==
    /\ IsFile(pkg_path)
    /\ files[pkg_path].type = "xar"
    /\ files[pkg_path].listable
    /\ \E k \in 1..Len(files[pkg_path].toc) : files[pkg_path].toc[k] = entry

\* one run of `xar -xf`, as logged: the frame that ran it, the exit status,
\* the file xar wrote and the pair yielded after it
XarRun(frame, status, dest, pair) ==
    [pkg_path |-> frame.filename, entry |-> frame.toc[frame.i], i |-> frame.i,
     tmpdir |-> frame.tmpdir, status |-> status, dest |-> dest, yield |-> pair]

\* the condition of the `if` in hand is false
GenSkip ==
    /\ InGenerator
    /\ ~RuleMatches(Top.rule, Top.toc[Top.i])
    /\ stack' = Replaced(Advanced(Top))
    /\ UNCHANGED <<ret, call, result, fsVars, histVars, pureVars>>

\* subprocess.call(cmd_extract) returns 0 and the pair is yielded
GenExtractOk ==
    /\ InGenerator
    /\ RuleMatches(Top.rule, Top.toc[Top.i])
    /\ CanExtract(Top.filename, Top.toc[Top.i])
    /\ LET entry == Top.toc[Top.i]
           dest == ExtractDest(Top.tmpdir, entry)
           pair == [path |-> YieldedPath(Top.tmpdir, entry),
                    type |-> RuleType(Top.rule)]
       IN /\ files' = SetKey(files, dest, MemberContent(files[Top.filename], entry))
          /\ dirs' = dirs \cup Ancestors(dest)
          /\ xarlog' = Append(xarlog, XarRun(Top, 0, dest, pair))
          /\ yielded' = Append(yielded, pair)
          /\ stack' = Replaced([Advanced(Top) EXCEPT !.pc = "dispatch",
                                                     !.pending = pair])
    /\ UNCHANGED <<ret, call, result, descended, tmpdirs, produced, pureVars>>

\* as AfterFailure, had the failure ended the loop over the toc
AfterFailureStops(frame) == [frame EXCEPT !.i = Len(frame.toc) + 1, !.rule = 1]

\* the frame after the `else` branch of the `if` in hand: print(...), and the
\* loop body goes on with the next `if`
AfterFailure(frame) == Advanced(frame)

\* subprocess.call(cmd_extract) returns non-zero: a message is printed
GenExtractFail ==
    /\ InGenerator
    /\ RuleMatches(Top.rule, Top.toc[Top.i])
    /\ xarlog' = Append(xarlog, XarRun(Top, 1, "", NoPair))
    /\ stack' = Replaced(AfterFailure(Top))
    /\ UNCHANGED <<ret, call, result, fsVars, descended, tmpdirs, produced,
                   yielded, pureVars>>

\* list(...) takes the pair and asks for the next
ExtractCollect ==
    /\ Running("extracted_package_info", "dispatch")
    /\ stack' = Replaced([Top EXCEPT !.pc = "gen", !.pending = NoPair])
    /\ UNCHANGED <<ret, call, result, fsVars, histVars, pureVars>>

\* the generator is exhausted: list(...) is complete
ExtractDone ==
    /\ Running("extracted_package_info", "gen")
    /\ Top.i > Len(Top.toc)
    /\ Return(List(yielded))
    /\ UNCHANGED <<call, fsVars, histVars, pureVars>>

----------------------------------------------------------------------------
(* get_flat_pkg_info. *)

\* xar -tf, communicate(), toc.strip().split('\n')
FlatToc ==
    /\ Running("get_flat_pkg_info", "toc")
    /\ stack' = Replaced([Top EXCEPT !.pc = "mkdtemp",
                                     !.toc = ReadToc(Top.filename)])
    /\ UNCHANGED <<ret, call, result, fsVars, histVars, pureVars>>

\* tmpdir = tempfile.mkdtemp()
FlatMkdtemp ==
    /\ Running("get_flat_pkg_info", "mkdtemp")
    /\ Len(tmpdirs) < MaxTmpDirs
    /\ LET tmpdir == MkdtempName(Len(tmpdirs) + 1)
       IN /\ dirs' = dirs \cup {tmpdir}
          /\ tmpdirs' = Append(tmpdirs, tmpdir)
          /\ stack' = Replaced([Top EXCEPT !.pc = "gen", !.tmpdir = tmpdir])
    /\ UNCHANGED <<ret, call, result, files, descended, produced, xarlog,
                   yielded, pureVars>>

\* info_type == 'pkginfo': self.parse_pkginfo_refs(infofile_path), the list
\* it returns is dropped
FlatParsePkginfo ==
    /\ Running("get_flat_pkg_info", "dispatch")
    /\ Top.pending.type = "pkginfo"
    /\ LET dom == ReadXml(Top.pending.path)
           info == IF dom.kind = "raise" THEN dom ELSE ParsePkginfoRefs(dom.pkginfo)
       IN IF info.kind = "raise"
          THEN Throw(info.exc) /\ UNCHANGED produced
          ELSE /\ stack' = Replaced([Top EXCEPT !.pc = "gen", !.pending = NoPair])
               /\ produced' = produced \o info.items
               /\ UNCHANGED <<ret, result>>
    /\ UNCHANGED <<call, fsVars, descended, tmpdirs, xarlog, yielded, pureVars>>

\* info_type == 'distribution': self.parse_distribution_refs(infofile_path),
\* called without path_to_pkg, what it returns is dropped
FlatParseDistribution ==
    /\ Running("get_flat_pkg_info", "dispatch")
    /\ Top.pending.type = "distribution"
    /\ stack' = Calling([Top EXCEPT !.pc = "gen", !.pending = NoPair],
                        DistFrame(Top.pending.path, ""))
    /\ UNCHANGED <<ret, call, result, fsVars, histVars, pureVars>>

\* the loop is over and the function ends without a return statement
FlatReturn ==
    /\ Running("get_flat_pkg_info", "gen")
    /\ Top.i > Len(Top.toc)
    /\ Return(None)
    /\ UNCHANGED <<call, fsVars, histVars, pureVars>>

----------------------------------------------------------------------------
(* parse_distribution_refs. *)

\* minidom.parse and the loop over the pkg-ref elements
DistParse ==
    /\ Running("parse_distribution_refs", "parse")
    /\ LET dom == ReadXml(Top.distribution_path)
           merged == IF dom.kind = "raise" THEN dom
                     ELSE MergeRefs(dom.pkgref, Top.distribution_path,
                                    Top.path_to_pkg)
       IN IF merged.kind = "raise"
          THEN Throw(merged.exc)
          ELSE /\ stack' = Replaced([Top EXCEPT !.pc = "resolve",
                                                !.pkgref_dict = merged.value,
                                                !.todo = DOMAIN merged.value])
               /\ UNCHANGED <<ret, result>>
    /\ UNCHANGED <<call, fsVars, histVars, pureVars>>

\* 'file' in pkgref and os.path.exists(pkgref['file'])
FileExists(pkgref) == "file" \in DOMAIN pkgref /\ Exists(pkgref["file"])

\* `for key in pkgref_dict.keys()` visits the keys in the order of the dict,
\* which the code does not choose: any key not yet visited may come next

\* the file exists: self.get_pkg_receiptinfo(pkgref['file']) is called
DistDescend ==
    /\ Running("parse_distribution_refs", "resolve")
    /\ \E key \in Top.todo :
         /\ FileExists(Top.pkgref_dict[key])
         /\ stack' = Calling([Top EXCEPT !.pc = "extend", !.todo = Top.todo \ {key}],
                             ReceiptFrame(Top.pkgref_dict[key]["file"]))
         /\ descended' = Append(descended, Top.pkgref_dict[key]["file"])
    /\ UNCHANGED <<ret, call, result, fsVars, tmpdirs, produced, xarlog,
                   yielded, pureVars>>

\* info.extend(<what the call returned>); continue
DistExtend ==
    /\ Running("parse_distribution_refs", "extend")
    /\ IF ret.kind = "list"
       THEN /\ stack' = Replaced([Top EXCEPT !.pc = "resolve",
                                             !.info = Top.info \o ret.items])
            /\ UNCHANGED <<ret, result>>
       ELSE Throw("TypeError")
    /\ UNCHANGED <<call, fsVars, histVars, pureVars>>

\* as Emitted, with the 'file' entry left in the dict
EmittedWithFile(pkgref) == pkgref

\* if 'file' in pkgref: del pkgref['file']: the dict that is appended
Emitted(pkgref) == DelKey(pkgref, "file")

\* no file on disk, 'version' in pkgref: del pkgref['file'];
\* info.append(pkgref_dict[key])
DistEmit ==
    /\ Running("parse_distribution_refs", "resolve")
    /\ \E key \in Top.todo :
         LET pkgref == Emitted(Top.pkgref_dict[key])
         IN /\ ~FileExists(Top.pkgref_dict[key])
            /\ "version" \in DOMAIN Top.pkgref_dict[key]
            /\ stack' = Replaced([Top EXCEPT !.todo = Top.todo \ {key},
                                             !.pkgref_dict[key] = pkgref,
                                             !.info = Append(Top.info, pkgref)])
            /\ produced' = Append(produced, pkgref)
    /\ UNCHANGED <<ret, call, result, fsVars, descended, tmpdirs, xarlog,
                   yielded, pureVars>>

\* no file on disk and no version: nothing is appended
DistDrop ==
    /\ Running("parse_distribution_refs", "resolve")
    /\ \E key \in Top.todo :
         /\ ~FileExists(Top.pkgref_dict[key])
         /\ "version" \notin DOMAIN Top.pkgref_dict[key]
         /\ stack' = Replaced([Top EXCEPT !.todo = Top.todo \ {key}])
    /\ UNCHANGED <<ret, call, result, fsVars, histVars, pureVars>>

\* the loop is over and the function ends without a return statement
DistReturn ==
    /\ Running("parse_distribution_refs", "resolve")
    /\ Top.todo = {}
    /\ Return(None)
    /\ UNCHANGED <<call, fsVars, histVars, pureVars>>

----------------------------------------------------------------------------
(* get_pkg_receiptinfo. *)

\* os.path.isfile(filename): info = self.get_flat_pkg_info(filename)
ReceiptFlat ==
    /\ Running("get_pkg_receiptinfo", "start")
    /\ IsFile(Top.filename)
    /\ stack' = Calling([Top EXCEPT !.pc = "return"], FlatFrame(Top.filename))
    /\ UNCHANGED <<ret, call, result, fsVars, histVars, pureVars>>

\* os.path.isdir(filename): self.get_bundle_pkg_info is looked up, and the
\* class defines no such method
ReceiptBundle ==
    /\ Running("get_pkg_receiptinfo", "start")
    /\ ~IsFile(Top.filename) /\ IsDir(Top.filename)
    /\ Throw("AttributeError")
    /\ UNCHANGED <<call, fsVars, histVars, pureVars>>

\* neither: pass, and info is still None
ReceiptUnrecognised ==
    /\ Running("get_pkg_receiptinfo", "start")
    /\ ~IsFile(Top.filename) /\ ~IsDir(Top.filename)
    /\ Return(None)
    /\ UNCHANGED <<call, fsVars, histVars, pureVars>>

\* return info
ReceiptReturn ==
    /\ Running("get_pkg_receiptinfo", "return")
    /\ Return(ret)
    /\ UNCHANGED <<call, fsVars, histVars, pureVars>>

----------------------------------------------------------------------------
(* The installers and descriptors of a run. *)

Ref(attrs, text) == [attrs |-> attrs, text |-> text]

\* the Distribution of the installer that wraps com.example.sub
SubDistribution == <<Ref(Attr("id", "com.example.sub"), "#Sub.pkg")>>
SubToc == <<"Distribution", "Sub.pkg/PackageInfo">>

DistributionChoices ==
    { Xml(<<>>, SubDistribution),
      Xml(<<>>, <<Ref([id |-> "com.example.sub", version |-> "1.2.3",
                       installKBytes |-> "4096"], "#Sub.pkg")>>),
      Xml(<<>>, <<Ref([id |-> "a", version |-> "1"], "file:A.pkg")>>),
      Xml(<<>>, <<Ref(Attr("id", "a"), "file:/pkgs/A.pkg")>>),
      Xml(<<>>, <<Ref([id |-> "a", version |-> "1"], "file:B.pkg"),
                  Ref([id |-> "b", version |-> "2"], "")>>),
      Xml(<<>>, <<Ref([id |-> "a", version |-> "1"], "#B.pkg"),
                  Ref([id |-> "a", version |-> "3"], "")>>),
      Xml(<<>>, <<Ref([id |-> "a", version |-> "1"], "file:Bundle.pkg")>>),
      Xml(<<>>, <<Ref([id |-> "a", version |-> "1"], "file:Missing.pkg"),
                  Ref(Attr("id", "b"), "file:Missing.pkg")>>),
      Garbage }

TocChoices ==
    { SubToc, <<"PackageInfo", "Payload">>, <<"Bom", "Payload">>,
      <<"Distribution">>, <<>> }

InstallerPaths == {"/pkgs/A.pkg", "/pkgs/Bundle.pkg", "/pkgs/Missing.pkg"}
DescriptorPaths == {"/pkgs/Distribution", "/pkgs/NoSuchFile"}

\* names of archive members, for extracted_package_info on its own
EntryNames ==
    { "PackageInfo", "PackageInfo.bak", "Sub.pkg/PackageInfo",
      "PackageInfo.pkg/PackageInfo", "Distribution",
      "Distribution.pkg/PackageInfo", "Scripts/PackageInfo", "Payload" }

Disk(archive, distribution) ==
    ("/pkgs/A.pkg" :> archive)
    @@ ("/pkgs/B.pkg" :> Xar(TRUE, <<"PackageInfo">>, Xml(<<>>, <<>>)))
    @@ ("/pkgs/Distribution" :> distribution)

Directories == {"/", "/pkgs", "/pkgs/Bundle.pkg", "/work", "/scratch", "/tmp"}

InitRun ==
    /\ dirs = Directories
    /\ stack = <<>>
    /\ ret = None
    /\ call = Idle
    /\ result = Idle
    /\ descended = <<>>
    /\ tmpdirs = <<>>
    /\ produced = <<>>
    /\ xarlog = <<>>
    /\ yielded = <<>>

\* no processor runs
InitNoProcessor ==
    /\ env = <<>>
    /\ self = Idle
    /\ jss = Idle
    /\ dp = {}
    /\ copies = <<>>
    /\ uploads = <<>>

InitPure ==
    /\ pkginfo_doc = <<>>
    /\ pkginfo_ret = Idle
    /\ dist_refs = <<>>
    /\ dist_ret = Idle
    /\ InitNoProcessor

----------------------------------------------------------------------------
(* The aggregation: one call of get_pkg_receiptinfo or of                  *)
(* parse_distribution_refs by the caller of the module.                    *)

Init ==
    /\ \E listable \in BOOLEAN, toc \in TocChoices, dist \in DistributionChoices :
         files = Disk(Xar(listable, toc, dist), dist)
    /\ InitRun
    /\ InitPure

CallGetPkgReceiptinfo ==
    /\ call = Idle
    /\ \E filename \in InstallerPaths :
         /\ call' = [fn |-> "get_pkg_receiptinfo", filename |-> filename]
         /\ stack' = <<ReceiptFrame(filename)>>
         /\ descended' = <<filename>>
    /\ UNCHANGED <<ret, result, fsVars, tmpdirs, produced, xarlog, yielded,
                   pureVars>>

CallParseDistributionRefs ==
    /\ call = Idle
    /\ \E path \in DescriptorPaths, path_to_pkg \in {"", "/pkgs/A.pkg"} :
         /\ call' = [fn |-> "parse_distribution_refs", distribution_path |-> path,
                     path_to_pkg |-> path_to_pkg]
         /\ stack' = <<DistFrame(path, path_to_pkg)>>
    /\ UNCHANGED <<ret, result, fsVars, histVars, pureVars>>

Next ==
    \/ CallGetPkgReceiptinfo
    \/ CallParseDistributionRefs
    \/ ReceiptFlat
    \/ ReceiptBundle
    \/ ReceiptUnrecognised
    \/ ReceiptReturn
    \/ FlatToc
    \/ FlatMkdtemp
    \/ GenSkip
    \/ GenExtractOk
    \/ GenExtractFail
    \/ FlatParsePkginfo
    \/ FlatParseDistribution
    \/ FlatReturn
    \/ DistParse
    \/ DistDescend
    \/ DistExtend
    \/ DistEmit
    \/ DistDrop
    \/ DistReturn

Spec == Init /\ [][Next]_vars


----------------------------------------------------------------------------
(* extracted_package_info called on its own, on an archive that holds the  *)
(* table of contents it is given.                                          *)

InitExtract ==
    /\ \E toc \in SeqsUpTo(EntryNames, MaxToc) :
         files = Disk(Xar(TRUE, toc, Xml(<<>>, SubDistribution)), Garbage)
    /\ InitRun
    /\ InitPure

CallExtractedPackageInfo ==
    /\ call = Idle
    /\ call' = [fn |-> "extracted_package_info", filename |-> "/pkgs/A.pkg"]
    /\ stack' = <<ExtractFrame("/pkgs/A.pkg", files["/pkgs/A.pkg"].toc)>>
    /\ UNCHANGED <<ret, result, fsVars, histVars, pureVars>>

NextExtract ==
    \/ CallExtractedPackageInfo
    \/ GenSkip
    \/ GenExtractOk
    \/ GenExtractFail
    \/ ExtractCollect
    \/ ExtractDone

SpecExtract == InitExtract /\ [][NextExtract]_vars

----------------------------------------------------------------------------
(* parse_pkginfo_refs called on its own. *)

InitPkginfo ==
    /\ files = Disk(Garbage, Garbage)
    /\ InitRun
    /\ pkginfo_doc \in PkgInfoDocs
    /\ pkginfo_ret = Idle
    /\ dist_refs = <<>>
    /\ dist_ret = Idle
    /\ InitNoProcessor

CallParsePkginfoRefs ==
    /\ pkginfo_ret = Idle
    /\ pkginfo_ret' = ParsePkginfoRefs(pkginfo_doc)
    /\ UNCHANGED <<fsVars, runVars, histVars, pkginfo_doc, dist_refs, dist_ret,
                   procVars>>

NextPkginfo == CallParsePkginfoRefs

SpecPkginfo == InitPkginfo /\ [][NextPkginfo]_vars

----------------------------------------------------------------------------
(* The pkg-ref loop of parse_distribution_refs on its own, for a           *)
(* descriptor at /pkgs/Distribution that describes /pkgs/A.pkg.            *)

InitMerge ==
    /\ files = Disk(Garbage, Garbage)
    /\ InitRun
    /\ pkginfo_doc = <<>>
    /\ pkginfo_ret = Idle
    /\ dist_refs \in PkgRefDocs
    /\ dist_ret = Idle
    /\ InitNoProcessor

CallMergeRefs ==
    /\ dist_ret = Idle
    /\ dist_ret' = MergeRefs(dist_refs, "/pkgs/Distribution", "/pkgs/A.pkg")
    /\ UNCHANGED <<fsVars, runVars, histVars, pkginfo_doc, pkginfo_ret, dist_refs,
                   procVars>>

NextMerge == CallMergeRefs

SpecMerge == InitMerge /\ [][NextMerge]_vars

----------------------------------------------------------------------------
(* JSSPackage.py: one run of the JSSPackage processor.  The JAMF Pro       *)
(* server and python-jss are the environment.  jss is                      *)
(*   [version, categories, packages, template, next_id]                    *)
(* with packages the package objects on the server, name |-> [name, id,    *)
(* text], text the text of the elements of the object, and template the    *)
(* text of the elements of an object python-jss makes anew.                *)

\* os.path.basename
Basename(p) == From(p, RFind(p, "/") + 1)

\* StrictVersion(a) < StrictVersion(b), a version being <<major, minor, patch>>
VersionLess(a, b) ==
    \/ a[1] < b[1]
    \/ a[1] = b[1] /\ a[2] < b[2]
    \/ a[1] = b[1] /\ a[2] = b[2] /\ a[3] < b[3]

REQUIRED_PYTHON_JSS_VERSION == <<2, 0, 0>>

\* env.get(key) where only its truth is looked at: None and "" are both false
EnvGet(key) == IF key \in DOMAIN env THEN env[key] ELSE ""

\* the keys init_jss_changed_objects sets
ChangedKeys ==
    {"jss_repo_updated", "jss_category_added", "jss_package_added",
     "jss_package_updated"}

\* for key in keys: self.env[key] = list()
InitJssChangedObjects(e) ==
    [k \in DOMAIN e \cup ChangedKeys |-> IF k \in ChangedKeys THEN <<>> ELSE e[k]]

\* self.env[key].append(item)
EnvAppend(e, key, item) == [e EXCEPT ![key] = Append(e[key], item)]

\* the processor raises: the run ends
ProcRaise(exc) == self' = [self EXCEPT !.pc = "raise", !.exc = exc]

\* main, up to self.init_jss_changed_objects()
PkgMainStart ==
    /\ self.kind = "JSSPackage"
    /\ self.pc = "start"
    /\ IF VersionLess(jss.version, REQUIRED_PYTHON_JSS_VERSION)
       THEN ProcRaise("ProcessorError") /\ UNCHANGED env
       ELSE /\ env' = InitJssChangedObjects(DelKey(env, "jss_importer_summary_result"))
            /\ self' = [self EXCEPT !.pc = "category",
                                    !.pkg_name = Basename(env["pkg_path"])]
    /\ UNCHANGED <<jss, dp, copies, uploads, fsVars, analysisVars>>

Category(name) == [kind |-> "category", name |-> name]

\* handle_category("category"): no category is asked for
PkgCategoryNone ==
    /\ self.kind = "JSSPackage"
    /\ self.pc = "category"
    /\ EnvGet("category") = ""
    /\ self' = [self EXCEPT !.pc = "mount", !.category = None]
    /\ UNCHANGED <<env, jss, dp, copies, uploads, fsVars, analysisVars>>

\* handle_category("category"): self.jss.Category(category_name) finds it
PkgCategoryExists ==
    /\ self.kind = "JSSPackage"
    /\ self.pc = "category"
    /\ EnvGet("category") # ""
    /\ EnvGet("category") \in jss.categories
    /\ self' = [self EXCEPT !.pc = "mount",
                            !.category = Category(EnvGet("category"))]
    /\ UNCHANGED <<env, jss, dp, copies, uploads, fsVars, analysisVars>>

\* handle_category("category"): GetError, the category is made and saved
PkgCategoryCreate ==
    /\ self.kind = "JSSPackage"
    /\ self.pc = "category"
    /\ EnvGet("category") # ""
    /\ EnvGet("category") \notin jss.categories
    /\ jss' = [jss EXCEPT !.categories = @ \cup {EnvGet("category")}]
    /\ env' = EnvAppend(env, "jss_category_added", EnvGet("category"))
    /\ self' = [self EXCEPT !.pc = "mount",
                            !.category = Category(EnvGet("category"))]
    /\ UNCHANGED <<dp, copies, uploads, fsVars, analysisVars>>

\* a distribution point: one that can be mounted (AFP, SMB) has is_mounted,
\* mount and umount; another (JDS, CDP) has none of them and is never mounted
DistributionPoint(mountable, mounted) ==
    [mountable |-> mountable, mounted |-> mounted, was_mounted |-> FALSE]

\* dp.was_mounted = hasattr(dp, 'is_mounted') and dp.is_mounted(), for
\* every distribution point
WasMountedSet(points) ==
    [k \in 1..Len(points) |->
        [points[k] EXCEPT !.was_mounted = points[k].mountable /\ points[k].mounted]]

\* self.jss.distribution_points.mount(): every distribution point that can
\* be mounted is mounted
MountAll(points) ==
    [k \in 1..Len(points) |->
        [points[k] EXCEPT !.mounted = points[k].mountable]]

\* self.jss.distribution_points.umount(): every distribution point is
\* unmounted
UmountAll(points) ==
    [k \in 1..Len(points) |-> [points[k] EXCEPT !.mounted = FALSE]]

\* main: was_mounted is recorded, and the distribution points are mounted
\* if there is a package
PkgMount ==
    /\ self.kind = "JSSPackage"
    /\ self.pc = "mount"
    /\ jss' = [jss EXCEPT !.distribution_points =
                   IF env["pkg_path"] # "" THEN MountAll(WasMountedSet(@))
                   ELSE WasMountedSet(@)]
    /\ self' = [self EXCEPT !.pc = "package"]
    /\ UNCHANGED <<env, dp, copies, uploads, fsVars, analysisVars>>

\* main, after handle_package: for every distribution point that was not
\* mounted, self.jss.distribution_points.umount()
PkgUmount ==
    /\ self.kind = "JSSPackage"
    /\ self.pc = "umount"
    /\ jss' = [jss EXCEPT !.distribution_points =
                   IF \E k \in 1..Len(@) : ~@[k].was_mounted
                   THEN UmountAll(@) ELSE @]
    /\ self' = [self EXCEPT !.pc = "summarize"]
    /\ UNCHANGED <<env, dp, copies, uploads, fsVars, analysisVars>>

\* the elements update_object is called for, in the order of the calls
PackageFields ==
    <<"category", "os_requirements", "info", "notes", "priority",
      "reboot_required", "boot_volume_required">>

\* the env key the recipe value of an element is taken from
RecipeKey ==
    [os_requirements |-> "os_requirements", info |-> "package_info",
     notes |-> "package_notes", priority |-> "package_priority",
     reboot_required |-> "package_reboot",
     boot_volume_required |-> "package_boot_volume_required"]

\* the `data` argument of the call of update_object for an element
RecipeData(field) ==
    IF field = "category"
    THEN IF self.category # None THEN self.category.name ELSE ""
    ELSE env[RecipeKey[field]]

\* self.env["JSS_REPOS"] and pkg_path != ""
PackageWanted == env["JSS_REPOS"] # <<>> /\ env["pkg_path"] # ""

\* handle_package: no repos or no package, nothing is handled
PkgSkip ==
    /\ self.kind = "JSSPackage"
    /\ self.pc = "package"
    /\ ~PackageWanted
    /\ self' = [self EXCEPT !.pc = "umount", !.package = None]
    /\ UNCHANGED <<env, jss, dp, copies, uploads, fsVars>>
    /\ UNCHANGED analysisVars

\* handle_package: not os.path.exists(pkg_path)
PkgNotFound ==
    /\ self.kind = "JSSPackage"
    /\ self.pc = "package"
    /\ PackageWanted
    /\ ~Exists(env["pkg_path"])
    /\ ProcRaise("ProcessorError")
    /\ UNCHANGED <<env, jss, dp, copies, uploads, fsVars>>
    /\ UNCHANGED analysisVars

\* self.jss.Package(self.pkg_name), or on GetError
\* jss.Package(self.jss, self.pkg_name): the object and the list changes to
\* it are reported in
LookupPackage(pkg_name) ==
    IF pkg_name \in DOMAIN jss.packages
    THEN [package |-> jss.packages[pkg_name], pkg_update |-> "jss_package_updated"]
    ELSE [package |-> [name |-> pkg_name, id |-> 0, text |-> jss.template],
          pkg_update |-> "jss_package_added"]

\* handle_package: a flat package, looked up or made anew
PkgLookupFlat ==
    /\ self.kind = "JSSPackage"
    /\ self.pc = "package"
    /\ PackageWanted
    /\ Exists(env["pkg_path"])
    /\ ~IsDir(env["pkg_path"])
    /\ LET found == LookupPackage(self.pkg_name)
       IN self' = [self EXCEPT !.pc = "update", !.field = 1,
                               !.pkg_path = env["pkg_path"],
                               !.package = found.package,
                               !.pkg_update = found.pkg_update]
    /\ UNCHANGED <<env, jss, dp, copies, uploads, fsVars>>
    /\ UNCHANGED analysisVars

\* handle_package: a bundle package is zipped by zip_pkg_path first, and
\* env["pkg_path"] and self.pkg_name follow
PkgLookupBundle ==
    /\ self.kind = "JSSPackage"
    /\ self.pc = "package"
    /\ PackageWanted
    /\ IsDir(env["pkg_path"])
    /\ LET zip_name == env["pkg_path"] \o ".zip"
           found == LookupPackage(self.pkg_name \o ".zip")
       IN /\ files' = SetKey(files, zip_name, [type |-> "zip"])
          /\ env' = [env EXCEPT !["pkg_path"] = zip_name]
          /\ self' = [self EXCEPT !.pc = "update", !.field = 1,
                                  !.pkg_path = zip_name,
                                  !.pkg_name = self.pkg_name \o ".zip",
                                  !.package = found.package,
                                  !.pkg_update = found.pkg_update]
    /\ UNCHANGED <<jss, dp, copies, uploads, dirs>>
    /\ UNCHANGED analysisVars

\* update_object is in hand for an element of the package
Updating ==
    /\ self.kind = "JSSPackage"
    /\ self.pc = "update"
    /\ self.field <= Len(PackageFields)

\* obj.save(): the server holds the object; an object made anew gets its id
Saved(package) ==
    IF package.id = 0 THEN [package EXCEPT !.id = jss.next_id] ELSE package

\* update_object: data == obj.findtext(path), nothing is done
PkgFieldSame ==
    /\ Updating
    /\ LET path == PackageFields[self.field]
       IN /\ path \in DOMAIN self.package.text
          /\ RecipeData(path) = self.package.text[path]
    /\ self' = [self EXCEPT !.field = @ + 1]
    /\ UNCHANGED <<env, jss, dp, copies, uploads, fsVars>>
    /\ UNCHANGED analysisVars

\* update_object: data != obj.findtext(path): the element is set, the object
\* saved and obj.name appended to the list
PkgFieldUpdate ==
    /\ Updating
    /\ LET path == PackageFields[self.field]
           package == Saved([self.package EXCEPT !.text[path] = RecipeData(path)])
       IN /\ path \in DOMAIN self.package.text
          /\ RecipeData(path) # self.package.text[path]
          /\ jss' = [jss EXCEPT !.packages = SetKey(@, package.name, package),
                                !.next_id = IF self.package.id = 0 THEN @ + 1 ELSE @]
          /\ env' = EnvAppend(env, self.pkg_update, package.name)
          /\ self' = [self EXCEPT !.field = @ + 1, !.package = package]
    /\ UNCHANGED <<dp, copies, uploads, fsVars>>
    /\ UNCHANGED analysisVars

\* update_object: the object has no such element: findtext gives None, which
\* differs from data, and obj.find(path) is None
PkgFieldMissing ==
    /\ Updating
    /\ PackageFields[self.field] \notin DOMAIN self.package.text
    /\ ProcRaise("AttributeError")
    /\ UNCHANGED <<env, jss, dp, copies, uploads, fsVars>>
    /\ UNCHANGED analysisVars

\* copy(source_item, id_): distribution_points.copy, and the name of the
\* file is appended to env["jss_repo_updated"]
Copy(source_item, id_) ==
    /\ copies' = Append(copies, [source_item |-> source_item, id_ |-> id_])
    /\ dp' = dp \cup {Basename(source_item)}
    /\ env' = EnvAppend(env, "jss_repo_updated", Basename(source_item))

\* update_object was called for every element
Updated ==
    /\ self.kind = "JSSPackage"
    /\ self.pc = "update"
    /\ self.field > Len(PackageFields)

\* len(self.env["jss_package_added"]) > 0
PackageAdded == Len(env["jss_package_added"]) > 0

\* self.jss.distribution_points.exists(os.path.basename(pkg_path))
DpExists(pkg_path) == Basename(pkg_path) \in dp

\* a package was added: self.copy(pkg_path, id_=package.id)
PkgCopyNew ==
    /\ Updated
    /\ PackageAdded
    /\ Copy(self.pkg_path, self.package.id)
    /\ self' = [self EXCEPT !.pc = "umount"]
    /\ UNCHANGED <<jss, uploads, fsVars, analysisVars>>

\* none was added and the file is on no distribution point:
\* self.copy(pkg_path)
PkgCopyMissing ==
    /\ Updated
    /\ ~PackageAdded
    /\ ~DpExists(self.pkg_path)
    /\ Copy(self.pkg_path, -1)
    /\ self' = [self EXCEPT !.pc = "umount"]
    /\ UNCHANGED <<jss, uploads, fsVars, analysisVars>>

\* "Package upload not needed."
PkgCopyNotNeeded ==
    /\ Updated
    /\ ~PackageAdded
    /\ DpExists(self.pkg_path)
    /\ self' = [self EXCEPT !.pc = "umount"]
    /\ UNCHANGED <<env, jss, dp, copies, uploads, fsVars, analysisVars>>

\* ", ".join(set(items)): the order of a set is not the code's to choose
RECURSIVE JoinSet(_)
JoinSet(S) ==
    IF S = {} THEN ""
    ELSE LET x == CHOOSE y \in S : TRUE
         IN IF S = {x} THEN x ELSE x \o ", " \o JoinSet(S \ {x})

\* get_report_string(items)
GetReportString(items) == JoinSet({items[k] : k \in 1..Len(items)})

\* 'jss_package_added' in self.env or 'jss_package_updated' in self.env
SummaryWanted ==
    "jss_package_added" \in DOMAIN env \/ "jss_package_updated" \in DOMAIN env

\* the value summarize stores under "jss_importer_summary_result"
SummaryResult ==
    [summary_text |-> "The following changes were made to the JSS:",
     report_fields |-> <<"Name", "Package", "Categories", "Version",
                         "Package_Uploaded">>,
     data |-> [Name |-> EnvGet("NAME"),
               Package |-> GetReportString(env["jss_package_added"]
                                           \o env["jss_package_updated"]),
               Categories |-> GetReportString(env["jss_category_added"]),
               Version |-> EnvGet("version"),
               Package_Uploaded |->
                   IF GetReportString(env["jss_repo_updated"]) # ""
                   THEN "True" ELSE ""]]

\* summarize, at the end of main
PkgSummarize ==
    /\ self.kind = "JSSPackage"
    /\ self.pc = "summarize"
    /\ env' = IF SummaryWanted
              THEN SetKey(env, "jss_importer_summary_result", SummaryResult)
              ELSE env
    /\ self' = [self EXCEPT !.pc = "done"]
    /\ UNCHANGED <<jss, dp, copies, uploads, fsVars, analysisVars>>

\* the recipe: the values AutoPkg hands to the processor
RecipeDefaults ==
    [os_requirements |-> "", package_info |-> "", package_notes |-> "",
     package_priority |-> "10", package_reboot |-> "False",
     package_boot_volume_required |-> "True"]

PkgPaths == {"", "/pkgs/A.pkg", "/pkgs/Bundle.pkg", "/pkgs/Missing.pkg"}

\* with or without a category, with or without the summary of an earlier
\* processor
Recipes ==
    { (("pkg_path" :> pkg_path) @@ ("JSS_REPOS" :> repos) @@ RecipeDefaults
         @@ category @@ summary) :
        pkg_path \in PkgPaths,
        repos \in {<<>>, <<"repo">>},
        category \in {<<>>, "category" :> "Apps"},
        summary \in {<<>>, "jss_importer_summary_result" :> "stale"} }

\* what the elements of a package object may hold: the values of the recipe
\* without and with its category, other values, and an object without a
\* notes element
PackageTexts ==
    LET same == [category |-> "", os_requirements |-> "", info |-> "",
                 notes |-> "", priority |-> "10", reboot_required |-> "False",
                 boot_volume_required |-> "True"]
    IN { same,
         [same EXCEPT !.category = "Apps"],
         [same EXCEPT !.category = "Unknown", !.priority = "5"],
         DelKey(same, "notes") }

NoPackages == [n \in {} |-> None]

\* the server holds no package, or one under the name the run looks up
ServerPackages ==
    {NoPackages}
    \cup { name :> [name |-> name, id |-> 7, text |-> text] :
             name \in {"A.pkg", "Bundle.pkg.zip"}, text \in PackageTexts }

\* the distribution points of the server and what is mounted when main
\* starts: none; one that can be mounted; two, one of them mounted; one that
\* cannot be mounted beside a mounted one
DistributionPointSets ==
    { <<>>,
      <<DistributionPoint(TRUE, FALSE)>>,
      <<DistributionPoint(TRUE, TRUE)>>,
      <<DistributionPoint(TRUE, TRUE), DistributionPoint(TRUE, FALSE)>>,
      <<DistributionPoint(FALSE, FALSE), DistributionPoint(TRUE, TRUE)>> }

\* mounted_before keeps, for every distribution point, whether it was
\* mounted when main started
Servers ==
    { [version |-> version, categories |-> categories, packages |-> packages,
       template |-> template, next_id |-> 8,
       distribution_points |-> points,
       mounted_before |-> [k \in 1..Len(points) |-> points[k].mounted]] :
        version \in {<<1, 9, 0>>, <<2, 0, 0>>},
        categories \in {{}, {"Apps"}},
        packages \in ServerPackages,
        template \in PackageTexts,
        points \in DistributionPointSets }

\* JSSPackage.__init__
NewJSSPackage ==
    [kind |-> "JSSPackage", pc |-> "start", exc |-> "", pkg_name |-> "",
     category |-> None, package |-> None, pkg_path |-> "", pkg_update |-> "",
     field |-> 0]

InitPackage ==
    /\ files = Disk(Xar(TRUE, <<"PackageInfo">>, Xml(SubPkginfo, <<>>)), Garbage)
    /\ InitRun
    /\ pkginfo_doc = <<>>
    /\ pkginfo_ret = Idle
    /\ dist_refs = <<>>
    /\ dist_ret = Idle
    /\ env \in Recipes
    /\ self = NewJSSPackage
    /\ jss \in Servers
    /\ (env["JSS_REPOS"] = <<>>) <=> (jss.distribution_points = <<>>)
    /\ dp \in {{}, {"A.pkg", "Bundle.pkg.zip"}}
    /\ copies = <<>>
    /\ uploads = <<>>

NextPackage ==
    \/ PkgMainStart
    \/ PkgCategoryNone
    \/ PkgCategoryExists
    \/ PkgCategoryCreate
    \/ PkgMount
    \/ PkgSkip
    \/ PkgNotFound
    \/ PkgLookupFlat
    \/ PkgLookupBundle
    \/ PkgFieldSame
    \/ PkgFieldUpdate
    \/ PkgFieldMissing
    \/ PkgCopyNew
    \/ PkgCopyMissing
    \/ PkgCopyNotNeeded
    \/ PkgUmount
    \/ PkgSummarize

SpecPackage == InitPackage /\ [][NextPackage]_vars

----------------------------------------------------------------------------
(* JSSPolicy.py: handle_policy and handle_icon in runs of the JSSPolicy     *)
(* processor against one server.  jss is                                   *)
(*   [version, policy_exists, policy_id, policy_icon]                      *)
(* with policy_icon the filename of the self service icon the server holds *)
(* for the policy, "" when it holds none.  The steps of main between       *)
(* init_jss_changed_objects and handle_policy (categories, groups,         *)
(* scripts, extension attributes) do not touch what handle_icon reads.     *)

\* the files find_file_in_search_path tries for a path, in order: the path
\* as specified, the parent folder of the path, the folder of the recipe
\* and its parent folder
SearchPath(path) ==
    LET given == IF Dirname(path) = "" THEN Join(env["RECIPE_DIR"], path) ELSE path
        filename == Basename(given)
    IN << given,
          Join(Dirname(Dirname(given)), filename),
          Join(env["RECIPE_DIR"], filename),
          Join(Dirname(env["RECIPE_DIR"]), filename) >>

\* find_file_in_search_path(path): the first file of the search path that
\* exists, or ProcessorError
FindFileInSearchPath(path) ==
    LET tries == SearchPath(path)
        found == {k \in 1..Len(tries) : IsFile(tries[k])}
    IN IF found = {} THEN Raise("ProcessorError")
       ELSE [kind |-> "path",
             path |-> tries[CHOOSE k \in found : \A j \in found : k <= j]]

\* init_jss_changed_objects of this processor: env["jss_changed_objects"]
\* holds an empty list under each of its keys
InitPolicyChangedObjects(e) ==
    SetKey(e, "jss_changed_objects", [jss_icon_uploaded |-> <<>>])

\* main, up to self.init_jss_changed_objects()
PolMainStart ==
    /\ self.kind = "JSSPolicy"
    /\ self.pc = "start"
    /\ IF VersionLess(jss.version, REQUIRED_PYTHON_JSS_VERSION)
       THEN ProcRaise("ProcessorError") /\ UNCHANGED env
       ELSE /\ env' = InitPolicyChangedObjects(
                          DelKey(env, "jss_importer_summary_result"))
            /\ self' = [self EXCEPT !.pc = "policy"]
    /\ UNCHANGED <<jss, dp, copies, uploads, fsVars, analysisVars>>

\* handle_policy: no policy_template, policy = None
PolNoPolicy ==
    /\ self.kind = "JSSPolicy"
    /\ self.pc = "policy"
    /\ EnvGet("policy_template") = ""
    /\ self' = [self EXCEPT !.pc = "icon", !.policy = None]
    /\ UNCHANGED <<env, jss, dp, copies, uploads, fsVars, analysisVars>>

\* update_or_create_new(jss.Policy, ...): the policy of the template is on
\* the server after the call, and the object handed back carries the icon
\* the server held for it
UpdateOrCreateNew ==
    [kind |-> "policy", id |-> jss.policy_id,
     icon_filename |-> IF jss.policy_exists THEN jss.policy_icon ELSE ""]

\* handle_policy: policy = self.update_or_create_new(...)
PolHandlePolicy ==
    /\ self.kind = "JSSPolicy"
    /\ self.pc = "policy"
    /\ EnvGet("policy_template") # ""
    /\ self' = [self EXCEPT !.pc = "icon", !.policy = UpdateOrCreateNew]
    /\ jss' = [jss EXCEPT !.policy_exists = TRUE,
                          !.policy_icon = UpdateOrCreateNew.icon_filename]
    /\ UNCHANGED <<env, dp, copies, uploads, fsVars, analysisVars>>

\* self.env.get("self_service_icon") and self.policy is not None
IconWanted == EnvGet("self_service_icon") # "" /\ self.policy # None

\* handle_icon: no icon is asked for, or no policy was handled
PolIconSkip ==
    /\ self.kind = "JSSPolicy"
    /\ self.pc = "icon"
    /\ ~IconWanted
    /\ self' = [self EXCEPT !.pc = "done"]
    /\ UNCHANGED <<env, jss, dp, copies, uploads, fsVars, analysisVars>>

\* handle_icon: the icon file is nowhere on the search path
PolIconNotFound ==
    /\ self.kind = "JSSPolicy"
    /\ self.pc = "icon"
    /\ IconWanted
    /\ FindFileInSearchPath(env["self_service_icon"]).kind = "raise"
    /\ ProcRaise("ProcessorError")
    /\ UNCHANGED <<env, jss, dp, copies, uploads, fsVars, analysisVars>>

\* as IconDiffers, whatever the two filenames
IconAlwaysDiffers(policy_filename, icon_filename) == TRUE

\* not policy_filename == icon_filename; policy_filename is "" where
\* findtext gives None, and icon_filename, the name of a file, is never ""
IconDiffers(policy_filename, icon_filename) == ~(policy_filename = icon_filename)

\* handle_icon is to compare the filenames: the path of the icon
IconInHand ==
    /\ self.kind = "JSSPolicy"
    /\ self.pc = "icon"
    /\ IconWanted
    /\ FindFileInSearchPath(env["self_service_icon"]).kind = "path"

\* handle_icon: the filenames differ: the FileUpload is saved, the server
\* holds the icon for the policy, and the filename is appended to
\* env["jss_changed_objects"]["jss_icon_uploaded"]
PolIconUpload ==
    /\ IconInHand
    /\ LET icon_path == FindFileInSearchPath(env["self_service_icon"]).path
           icon_filename == Basename(icon_path)
       IN /\ IconDiffers(self.policy.icon_filename, icon_filename)
          /\ uploads' = Append(uploads, [id |-> self.policy.id,
                                         icon_path |-> icon_path])
          /\ jss' = [jss EXCEPT !.policy_icon = icon_filename]
          /\ env' = [env EXCEPT !["jss_changed_objects"]["jss_icon_uploaded"] =
                         Append(@, icon_filename)]
    /\ self' = [self EXCEPT !.pc = "done"]
    /\ UNCHANGED <<dp, copies, fsVars, analysisVars>>

\* handle_icon: "Icon matches existing icon, moving on..."
PolIconMatches ==
    /\ IconInHand
    /\ ~IconDiffers(self.policy.icon_filename,
                    Basename(FindFileInSearchPath(env["self_service_icon"]).path))
    /\ self' = [self EXCEPT !.pc = "done"]
    /\ UNCHANGED <<env, jss, dp, copies, uploads, fsVars, analysisVars>>

\* JSSPolicy.__init__
NewJSSPolicy(runs) ==
    [kind |-> "JSSPolicy", pc |-> "start", exc |-> "", policy |-> None,
     runs |-> runs]

\* the recipe is run again: a new processor, the same input variables
PolRunAgain ==
    /\ self.kind = "JSSPolicy"
    /\ self.pc = "done"
    /\ self.runs < MaxRuns
    /\ self' = NewJSSPolicy(self.runs + 1)
    /\ env' = DelKey(env, "jss_changed_objects")
    /\ UNCHANGED <<jss, dp, copies, uploads, fsVars, analysisVars>>

PolicyRecipes ==
    { [RECIPE_DIR |-> "/recipes/App", policy_template |-> template,
       self_service_icon |-> icon] :
        template \in {"", "PolicyTemplate.xml"},
        icon \in {"", "Icon.png", "/icons/Icon.png", "/icons/sets/Other.png",
                  "Missing.png"} }

PolicyServers ==
    { [version |-> version, policy_exists |-> exists, policy_id |-> 3,
       policy_icon |-> icon] :
        version \in {<<1, 9, 0>>, <<2, 0, 0>>},
        exists \in BOOLEAN,
        icon \in {"", "Icon.png", "Other.png"} }

\* the icon files on disk
IconFiles ==
    ("/recipes/App/Icon.png" :> [type |-> "png"])
    @@ ("/icons/Other.png" :> [type |-> "png"])

InitPolicy ==
    /\ files = IconFiles
    /\ InitRun
    /\ pkginfo_doc = <<>>
    /\ pkginfo_ret = Idle
    /\ dist_refs = <<>>
    /\ dist_ret = Idle
    /\ env \in PolicyRecipes
    /\ self = NewJSSPolicy(1)
    /\ jss \in {server \in PolicyServers :
                   server.policy_exists \/ server.policy_icon = ""}
    /\ dp = {}
    /\ copies = <<>>
    /\ uploads = <<>>

NextPolicy ==
    \/ PolMainStart
    \/ PolNoPolicy
    \/ PolHandlePolicy
    \/ PolIconSkip
    \/ PolIconNotFound
    \/ PolIconUpload
    \/ PolIconMatches
    \/ PolRunAgain

SpecPolicy == InitPolicy /\ [][NextPolicy]_vars

----------------------------------------------------------------------------
(* Properties of the aggregation (Spec). *)

\* the call made by the caller of the module has ended
Ended == call # Idle /\ stack = <<>>

AggregatedFlat ==
    /\ Ended
    /\ call.fn = "get_pkg_receiptinfo"
    /\ IsFile(call.filename)

NoDuplicates(seq) == \A i, j \in 1..Len(seq) : seq[i] = seq[j] => i = j

\* the dicts of a list, each at its first occurrence by package id
RECURSIVE FirstSeen(_)
FirstSeen(seq) ==
    IF seq = <<>> THEN <<>>
    ELSE LET front == SubSeq(seq, 1, Len(seq) - 1)
             last == seq[Len(seq)]
         IN IF \E i \in 1..Len(front) : front[i]["packageid"] = last["packageid"]
            THEN FirstSeen(front)
            ELSE Append(FirstSeen(front), last)

\* C1: when get_pkg_receiptinfo, called on a flat installer, has ended, the
\* caller holds the list of the records the two parsers produced during the
\* call, in first-seen order, one per package id.
C1_ReturnsAccumulatedRecords ==
    AggregatedFlat => result = List(FirstSeen(produced))

\* every xar run of the call exited 0
AllExtracted == \A k \in 1..Len(xarlog) : xarlog[k].status = 0

\* C2: when parse_distribution_refs has called get_pkg_receiptinfo for a
\* pkg-ref that names a flat installer on disk, every xar run exited 0 and
\* the call has ended, the parse has completed
\* with a list that holds what the parsers produced for the nested installer
\* and holds no record that still names a file.
C2_NestedRecordsReplaceRef ==
    (Ended /\ call.fn = "parse_distribution_refs" /\ descended # <<>>
       /\ IsFile(descended[1]) /\ AllExtracted)
    => /\ result.kind = "list"
       /\ \A k \in 1..Len(produced) : InList(produced[k], result.items)
       /\ \A k \in 1..Len(result.items) : "file" \notin DOMAIN result.items[k]

\* the record of the component com.example.sub
SubRecord ==
    [packageid |-> "com.example.sub", version |-> "1.2.3", installed_size |-> 4096]

\* the installer of the end-to-end scenario was aggregated, every xar run
\* exiting 0
AggregatedSub ==
    /\ AggregatedFlat
    /\ call.filename = "/pkgs/A.pkg"
    /\ files["/pkgs/A.pkg"] = Xar(TRUE, SubToc, Xml(<<>>, SubDistribution))
    /\ AllExtracted

\* C3: aggregating the installer with table of contents
\* ["Distribution", "Sub.pkg/PackageInfo"] yields exactly the one record
\* {com.example.sub, 1.2.3, 4096}.
C3_OneRecordForSub == AggregatedSub => result = List(<<SubRecord>>)

C5_TmpdirRemoved == Ended => \A k \in 1..Len(tmpdirs) : ~IsDir(tmpdirs[k])

\* xar cannot list the installer that was aggregated
ListingFailed ==
    /\ AggregatedFlat
    /\ ~(files[call.filename].type = "xar" /\ files[call.filename].listable)

\* C6: when xar cannot list the installer, the call ends with an error
\* raised to the caller, and nothing was extracted.
C6_ListingFailureRaises ==
    ListingFailed => (result.kind = "raise" /\ xarlog = <<>>)

\* the frames of parse_distribution_refs that get_flat_pkg_info called
FlatDistFrames ==
    {i \in 2..Len(stack) :
        stack[i].fn = "parse_distribution_refs"
        /\ stack[i - 1].fn = "get_flat_pkg_info"}

\* the 'file:' bodies that end in '.pkg' of the Distribution members of an
\* installer
FileBodies(installer) ==
    IF IsFile(installer) /\ files[installer].type = "xar"
       /\ files[installer].dist.type = "xml"
    THEN {files[installer].dist.pkgref[k].text :
            k \in {j \in 1..Len(files[installer].dist.pkgref) :
                     LET text == files[installer].dist.pkgref[j].text
                     IN NamesFile(text) /\ StartsWith(text, "file:")}}
    ELSE {}

\* C11: while parse_distribution_refs works on a Distribution that
\* get_flat_pkg_info extracted from an installer, every 'file:' body of that
\* Distribution resolves to its percent-decoded path joined to the directory
\* that holds the installer.
C11_FileRefAgainstInstallerDir ==
    \A i \in FlatDistFrames : \A text \in FileBodies(stack[i - 1].filename) :
        RefFile(text, stack[i].distribution_path, stack[i].path_to_pkg)
            = Join(Dirname(stack[i - 1].filename), Unquote(From(text, 6)))

\* the keys of pkgref_dict the loop `for key in pkgref_dict.keys()` of a frame
\* has been through
Visited(frame) == DOMAIN frame.pkgref_dict \ frame.todo

\* the visited keys whose record names no file that is on disk and carries a
\* version
Emittable(frame) ==
    {key \in Visited(frame) :
        /\ ~FileExists(frame.pkgref_dict[key])
        /\ "version" \in DOMAIN frame.pkgref_dict[key]}

ParseInHand ==
    IF Running("parse_distribution_refs", "parse")
    THEN ReadXml(Top.distribution_path)
    ELSE IF Running("get_flat_pkg_info", "dispatch") /\ Top.pending.type = "pkginfo"
    THEN ReadXml(Top.pending.path)
    ELSE None

\* C14: when minidom.parse raises on a descriptor, in whatever frame of the
\* chain, the step ends the whole call with that same exception handed to
\* the caller of the module and no list returned; an exception handed to the
\* caller is never replaced afterwards.
C14_ParseFailurePropagates ==
    [][/\ ParseInHand.kind = "raise" =>
            (stack' = <<>> /\ result' = Raise(ParseInHand.exc))
       /\ result.kind = "raise" => result' = result]_vars

\* C14 witness: parse_distribution_refs descended into a flat installer,
\* xar extracted a descriptor of it, the parse of that descriptor inside
\* get_flat_pkg_info raised and the caller of parse_distribution_refs holds
\* the exception.
C14_Witness ==
    /\ Ended
    /\ call.fn = "parse_distribution_refs"
    /\ descended = <<"/pkgs/A.pkg">>
    /\ xarlog # <<>>
    /\ AllExtracted
    /\ result = Raise("IOError")

\* C15: every xar run that exits 0 writes its member under the tmpdir of the
\* call that ran it, at the path that call then yields, and two runs of
\* different calls never write the same path.
C15_ScopedExtraction ==
    \A r \in 1..Len(xarlog) :
        xarlog[r].status = 0 =>
            /\ xarlog[r].dest = xarlog[r].yield.path
            /\ \A q \in 1..Len(xarlog) :
                 (xarlog[q].status = 0 /\ xarlog[q].tmpdir # xarlog[r].tmpdir)
                 => xarlog[q].dest # xarlog[r].dest

\* the names the generator extracts
IsPkginfoName(entry) ==
    entry = "PackageInfo" \/ StartsWith(entry, "PackageInfo")
    \/ EndsWith(entry, ".pkg/PackageInfo")
IsDistributionName(entry) == StartsWith(entry, "Distribution")

\* the call of this frame has run xar for every entry of its table of
\* contents that has a name the generator extracts
ExtractionComplete(frame) ==
    \A k \in 1..Len(frame.toc) :
        (IsPkginfoName(frame.toc[k]) \/ IsDistributionName(frame.toc[k]))
        => \E r \in 1..Len(xarlog) :
               xarlog[r].tmpdir = frame.tmpdir /\ xarlog[r].i = k

\* C16: whenever get_flat_pkg_info is about to parse a descriptor, or
\* parse_distribution_refs runs for it, xar has already run for every entry
\* of the table of contents that is to be extracted.
C16_ParseAfterExtraction ==
    \A i \in 1..Len(stack) :
        (stack[i].fn = "get_flat_pkg_info"
           /\ (stack[i].pc = "dispatch" \/ i < Len(stack)))
        => ExtractionComplete(stack[i])

----------------------------------------------------------------------------
(* Properties of the run of JSSPackage (SpecPackage). *)

\* C17: no step copies the package file while a file of its name is on a
\* distribution point.
C17_NoCopyWhenOnDp ==
    [][Len(copies') > Len(copies)
         => ~DpExists(copies'[Len(copies')].source_item)]_vars

\* handle_package has returned a package object it had to make anew
HandledNewPackage ==
    /\ self.kind = "JSSPackage"
    /\ self.pc \in {"summarize", "done"}
    /\ self.package # None
    /\ self.pkg_update = "jss_package_added"

\* C18: when handle_package had to make the package object anew, it has
\* copied the package file once, passing the id under which the server holds
\* the new object.
C18_NewPackageCopiedWithId ==
    HandledNewPackage =>
        /\ Len(copies) = 1
        /\ copies[1].source_item = self.pkg_path
        /\ self.package.name \in DOMAIN jss.packages
        /\ copies[1].id_ = jss.packages[self.package.name].id

\* C19: after main, the summary result is in env only if a package was
\* added or updated in the run.
C19_SummaryOnlyWhenChanged ==
    (self.kind = "JSSPackage" /\ self.pc = "done"
       /\ "jss_importer_summary_result" \in DOMAIN env)
    => (env["jss_package_added"] # <<>> \/ env["jss_package_updated"] # <<>>)

\* distribution point k is mounted
IsMounted(k) == jss.distribution_points[k].mounted

\* C21: when main has returned, a distribution point is mounted if and only
\* if it was mounted when main started.
C21_MountStateRestored ==
    (self.kind = "JSSPackage" /\ self.pc = "done")
    => \A k \in 1..Len(jss.distribution_points) :
           IsMounted(k) <=> jss.mounted_before[k]

\* handle_package raised ProcessorError because pkg_path does not exist
PkgPathMissingRaised ==
    /\ self.kind = "JSSPackage"
    /\ self.pc = "raise"
    /\ self.exc = "ProcessorError"
    /\ ~VersionLess(jss.version, REQUIRED_PYTHON_JSS_VERSION)
    /\ PackageWanted
    /\ ~Exists(env["pkg_path"])

\* C22: when handle_package has raised ProcessorError for a pkg_path that
\* does not exist, no package object was made or saved, no file was copied,
\* and no distribution point is mounted that was not mounted when main
\* started.
C22_MissingPackageLeavesNothing ==
    PkgPathMissingRaised
    => /\ self.package = None
       /\ jss.next_id = 8
       /\ env["jss_package_added"] = <<>>
       /\ env["jss_package_updated"] = <<>>
       /\ copies = <<>>
       /\ \A k \in 1..Len(jss.distribution_points) :
              IsMounted(k) => jss.mounted_before[k]

----------------------------------------------------------------------------
(* Properties of the runs of JSSPolicy (SpecPolicy). *)

\* the icons uploaded in this run of the processor
IconsUploaded ==
    IF "jss_changed_objects" \in DOMAIN env
    THEN env["jss_changed_objects"]["jss_icon_uploaded"]
    ELSE <<>>

\* C20: a step uploads an icon only when a policy was handled, a
\* self_service_icon is set and the filename of the icon differs from the
\* one set on the policy; a step of handle_icon that finds the two filenames
\* equal saves no FileUpload and leaves the list of uploaded icons alone; and
\* the runs of one recipe against one server upload its icon at most once.
C20_IconUploadedOnlyWhenChanged ==
    /\ [][Len(uploads') > Len(uploads) =>
             /\ self.policy # None
             /\ EnvGet("self_service_icon") # ""
             /\ Basename(uploads'[Len(uploads')].icon_path)
                    # self.policy.icon_filename
             /\ uploads'[Len(uploads')].id = self.policy.id]_vars
    /\ [][(/\ IconInHand
           /\ Basename(FindFileInSearchPath(env["self_service_icon"]).path)
                  = self.policy.icon_filename)
          => (uploads' = uploads /\ IconsUploaded' = IconsUploaded)]_vars
    /\ [](Len(uploads) <= 1)

\* the first run uploaded the icon, and the second run found the filename
\* on the policy and uploaded nothing
C20_Witness ==
    /\ self.kind = "JSSPolicy"
    /\ self.pc = "done"
    /\ self.runs = 2
    /\ self.policy # None
    /\ self.policy.icon_filename = Basename(env["self_service_icon"])
    /\ Len(uploads) = 1
    /\ IconsUploaded = <<>>

----------------------------------------------------------------------------
(* Properties of extracted_package_info (SpecExtract). *)

\* the pairs yielded after the runs of a log
RECURSIVE YieldsOf(_)
YieldsOf(log) ==
    IF log = <<>> THEN <<>>
    ELSE IF Head(log).status = 0 THEN <<Head(log).yield>> \o YieldsOf(Tail(log))
    ELSE YieldsOf(Tail(log))

\* xar ran for entry k of the toc, and where it exited 0 a pair of this
\* type was yielded
ExtractedAs(k, type) ==
    \E r \in 1..Len(xarlog) :
        xarlog[r].i = k /\ (xarlog[r].status = 0 => xarlog[r].yield.type = type)

\* C7: xar runs only for entries with a pkginfo or a distribution name; a
\* pair is yielded after each run that exits 0 and after no other, its path
\* is the entry under tmpdir and its type is the one the name of the entry
\* gives; when the generator is exhausted every entry with a pkginfo name was
\* extracted as 'pkginfo' and every entry with a distribution name as
\* 'distribution'.
C7_ClassifiedByName ==
    /\ \A r \in 1..Len(xarlog) :
         LET run == xarlog[r] IN
         /\ IsPkginfoName(run.entry) \/ IsDistributionName(run.entry)
         /\ run.status # 0 => run.yield = NoPair
         /\ run.status = 0 =>
              /\ run.yield.path = Join(run.tmpdir, run.entry)
              /\ \/ run.yield.type = "pkginfo" /\ IsPkginfoName(run.entry)
                 \/ run.yield.type = "distribution" /\ IsDistributionName(run.entry)
    /\ yielded = YieldsOf(xarlog)
    /\ Ended =>
         /\ result = List(yielded)
         /\ \A k \in 1..Len(files[call.filename].toc) :
              LET entry == files[call.filename].toc[k] IN
              /\ IsPkginfoName(entry) => ExtractedAs(k, "pkginfo")
              /\ IsDistributionName(entry) => ExtractedAs(k, "distribution")

\* C7 witness: a pkginfo entry, a distribution entry and an entry that is
\* neither were gone through, and the two pairs were yielded.
C7_Witness ==
    /\ Ended
    /\ files[call.filename].toc = <<"Sub.pkg/PackageInfo", "Payload", "Distribution">>
    /\ result = List(<<[path |-> "/tmp/Sub.pkg/PackageInfo", type |-> "pkginfo"],
                       [path |-> "/tmp/Distribution", type |-> "distribution"]>>)

\* the runs of xar a table of contents calls for when no run fails: one
\* for each entry and each pattern the entry matches, in order
RECURSIVE RunsFrom(_, _, _)
RunsFrom(toc, k, rule) ==
    IF k > Len(toc) THEN <<>>
    ELSE LET rest == IF rule < 3 THEN RunsFrom(toc, k, rule + 1)
                     ELSE RunsFrom(toc, k + 1, 1)
         IN IF RuleMatches(rule, toc[k])
            THEN <<[i |-> k, rule |-> rule]>> \o rest ELSE rest

\* the pair a run yields when xar exits 0
PairOf(toc, run) ==
    [path |-> Join("/tmp", toc[run.i]),
     type |-> IF run.rule = 3 THEN "distribution" ELSE "pkginfo"]

RunsOfEntry(k) == {r \in 1..Len(xarlog) : xarlog[r].i = k}

\* C23: extracted_package_info runs xar at most once for each entry of the
\* table of contents, and yields at most one pair for it, also for an entry
\* whose name satisfies more than one rule.
C23_EachEntryOnce ==
    call # Idle =>
        \A k \in 1..Len(files[call.filename].toc) :
            /\ Cardinality(RunsOfEntry(k)) <= 1
            /\ Cardinality({r \in RunsOfEntry(k) : xarlog[r].status = 0}) <= 1

----------------------------------------------------------------------------
(* Properties of parse_pkginfo_refs (SpecPkginfo). *)

Count(seq, x) == Cardinality({i \in 1..Len(seq) : seq[i] = x})

HasIdVersion(node) ==
    "identifier" \in DOMAIN node.attrs /\ "version" \in DOMAIN node.attrs

\* payload p of the node carries an installKBytes that is an integer
SizedPayload(node, p) ==
    /\ "installKBytes" \in DOMAIN node.payloads[p]
    /\ IsIntLiteral(node.payloads[p]["installKBytes"])

RecordOf(node, p) ==
    [packageid |-> node.attrs["identifier"], version |-> node.attrs["version"],
     installed_size |-> IntOf(node.payloads[p]["installKBytes"])]

\* C8, as claimed: the list returned holds exactly one record {X, Y, Z} for
\* every pkg-info node with identifier X, version Y and some payload node
\* with installKBytes Z.
C8_RecordForAnyPayload ==
    pkginfo_ret.kind = "list" =>
        \A k \in 1..Len(pkginfo_doc) : \A p \in 1..Len(pkginfo_doc[k].payloads) :
            (HasIdVersion(pkginfo_doc[k]) /\ SizedPayload(pkginfo_doc[k], p))
            => Count(pkginfo_ret.items, RecordOf(pkginfo_doc[k], p)) = 1

\* C8, amended: the list returned holds exactly one record {X, Y, Z} for every
\* pkg-info node with identifier X, version Y and a first payload node with
\* installKBytes Z.
C8_RecordForFirstPayload ==
    pkginfo_ret.kind = "list" =>
        \A k \in 1..Len(pkginfo_doc) :
            (HasIdVersion(pkginfo_doc[k]) /\ pkginfo_doc[k].payloads # <<>>
               /\ SizedPayload(pkginfo_doc[k], 1))
            => Count(pkginfo_ret.items, RecordOf(pkginfo_doc[k], 1)) = 1

\* C8 witness: the same identifier, version and size occur twice and one
\* record was returned.
C8_Witness ==
    /\ pkginfo_ret.kind = "list"
    /\ Len(pkginfo_doc) = 2
    /\ pkginfo_doc[1] = pkginfo_doc[2]
    /\ HasIdVersion(pkginfo_doc[1])
    /\ pkginfo_doc[1].payloads = <<Attr("installKBytes", "4")>>
    /\ pkginfo_ret.items = <<[packageid |-> pkginfo_doc[1].attrs["identifier"],
                              version |-> "1", installed_size |-> 4]>>

\* C9: every record of the list returned carries an installed size, and it is
\* the installKBytes of a payload of a pkg-info node with that identifier and
\* version; a document in which no payload carries installKBytes gives no
\* record.
C9_SizeFromOwnPayload ==
    pkginfo_ret.kind = "list" =>
        \A i \in 1..Len(pkginfo_ret.items) :
            /\ "installed_size" \in DOMAIN pkginfo_ret.items[i]
            /\ \E k \in 1..Len(pkginfo_doc) : \E p \in 1..Len(pkginfo_doc[k].payloads) :
                 /\ HasIdVersion(pkginfo_doc[k])
                 /\ SizedPayload(pkginfo_doc[k], p)
                 /\ pkginfo_ret.items[i] = RecordOf(pkginfo_doc[k], p)

\* C9 witness: a node with identifier and version whose payload carries no
\* installKBytes was parsed beside a node that gave a record.
C9_Witness ==
    /\ pkginfo_ret.kind = "list"
    /\ Len(pkginfo_doc) = 2
    /\ pkginfo_doc[1] = [attrs |-> [identifier |-> "a", version |-> "1"],
                         payloads |-> <<NoAttrs>>]
    /\ pkginfo_doc[2].attrs = [identifier |-> "b", version |-> "1"]
    /\ pkginfo_ret.items = <<[packageid |-> "b", version |-> "1",
                              installed_size |-> 4]>>

----------------------------------------------------------------------------
(* Properties of the pkg-ref loop of parse_distribution_refs (SpecMerge). *)

\* the positions of the pkg-ref nodes with this id that carry the attribute
Carrying(id, attr) ==
    {k \in 1..Len(dist_refs) :
        /\ "id" \in DOMAIN dist_refs[k].attrs
        /\ dist_refs[k].attrs["id"] = id
        /\ attr \in DOMAIN dist_refs[k].attrs}

LastOf(S) == CHOOSE k \in S : \A j \in S : j <= k

\* C10: pkgref_dict holds one record per pkg-ref id of the document; the
\* record carries a version (an installed size) exactly when some node with
\* that id does, and it is the one of the last such node.
C10_LastValueKept ==
    dist_ret.kind = "dict" =>
        LET d == dist_ret.value IN
        /\ DOMAIN d = {dist_refs[k].attrs["id"] :
                          k \in {j \in 1..Len(dist_refs) : "id" \in DOMAIN dist_refs[j].attrs}}
        /\ \A id \in DOMAIN d :
             /\ d[id]["packageid"] = id
             /\ "version" \in DOMAIN d[id] <=> Carrying(id, "version") # {}
             /\ Carrying(id, "version") # {} =>
                  d[id]["version"] = dist_refs[LastOf(Carrying(id, "version"))].attrs["version"]
             /\ "installed_size" \in DOMAIN d[id] <=> Carrying(id, "installKBytes") # {}
             /\ Carrying(id, "installKBytes") # {} =>
                  d[id]["installed_size"] =
                      IntOf(dist_refs[LastOf(Carrying(id, "installKBytes"))].attrs["installKBytes"])

\* C10 witness: two nodes with id a, the first with version 1 and size 4, the
\* second with version 2 and no size: version 2 and size 4 are kept.
C10_Witness ==
    /\ dist_ret.kind = "dict"
    /\ Len(dist_refs) = 2
    /\ dist_refs[1].attrs = [id |-> "a", version |-> "1", installKBytes |-> "4"]
    /\ dist_refs[2].attrs = [id |-> "a", version |-> "2"]
    /\ dist_ret.value["a"]["version"] = "2"
    /\ dist_ret.value["a"]["installed_size"] = 4

====
